---------------------------- MODULE Spec2Model ----------------------------
(***************************************************************************)
(* Model of the Tikki backend (src/tikki/app.py): the /login handshake     *)
(* (identity bootstrap with implicit sign-up) and the CRUD endpoints over  *)
(* User, Record, Event and UserEventLink, and the comparison statistics of *)
(* the two fitness tests.                                                  *)
(*                                                                         *)
(* JSON scalars are tagged pairs <<tag, text>>; rows, request payloads and *)
(* resolved arguments are functions from field names to such pairs.  An    *)
(* optional row (Python's "row or None") is a set with at most one row.    *)
(***************************************************************************)
EXTENDS Naturals, FiniteSets, Sequences, TLC

VARIABLES db, login, lastReq, lastCall, lastStat, served

vars == <<db, login, lastReq, lastCall, lastStat, served>>

(***************************************************************************)
(* Bounds of the model.                                                    *)
(***************************************************************************)
NumLogins == 2

MaxRequests == 2

\* the stored records the comparison statistics are computed over
MaxRecords == 3

(***************************************************************************)
(* JSON values.                                                            *)
(***************************************************************************)
Str(s) == <<"str", s>>
Int(s) == <<"int", s>>
Dict(s) == <<"dict", s>>
Time(s) == <<"time", s>>
None == <<"null", "None">>

EmptyMap == [k \in {} |-> None]

\* dict.update(): the right operand wins on common keys
Update(base, extra) == extra @@ base

\* dict.pop(key, None) as the pair (value, rest)
PopValue(m, k) == IF k \in DOMAIN m THEN m[k] ELSE None
PopRest(m, k) == [x \in DOMAIN m \ {k} |-> m[x]]

(***************************************************************************)
(* Storage collaborator (tikki.db.api), modelled from spec section 6.      *)
(***************************************************************************)
EntityTypes == {"User", "Record", "Event", "UserEventLink"}

\* the column(s) whose value must be unique among the rows of a type
KeyColumns(t) ==
    CASE t = "User" -> {{"id"}, {"username"}}
      [] t = "Record" -> {{"id"}}
      [] t = "Event" -> {{"id"}}
      [] t = "UserEventLink" -> {{"user_id", "event_id"}}
      [] OTHER -> {}

Matches(row, filters) ==
    \A k \in DOMAIN filters : k \in DOMAIN row /\ row[k] = filters[k]

get_rows(d, t, filters) ==
    IF t \in EntityTypes THEN {row \in d[t] : Matches(row, filters)} ELSE {}

\* at most one row: the empty set stands for None
get_row(d, t, filters) ==
    LET found == get_rows(d, t, filters)
    IN  IF found = {} THEN {} ELSE {CHOOSE row \in found : TRUE}

Conflicts(d, t, row) ==
    \E cols \in KeyColumns(t) : \E old \in d[t] :
        \A c \in cols : c \in DOMAIN row /\ c \in DOMAIN old /\ row[c] = old[c]

\* add_row succeeds unless the entity type is unknown or a uniqueness
\* constraint is violated
add_row_ok(d, t, row) == t \in EntityTypes /\ ~Conflicts(d, t, row)

add_row(d, t, row) ==
    IF add_row_ok(d, t, row) THEN [d EXCEPT ![t] = @ \cup {row}] ELSE d

delete_row_ok(d, t, filters) == t \in EntityTypes

delete_row(d, t, filters) ==
    IF delete_row_ok(d, t, filters)
    THEN [d EXCEPT ![t] = {row \in @ : ~Matches(row, filters)}]
    ELSE d

\* row.json_dict: the stored row as a mapping
json_dict(row) == row

(***************************************************************************)
(* /login (app.py lines 54-97).                                            *)
(***************************************************************************)
Logins == 1..NumLogins

Subjects == {"alice", "bob"}

\* bearer tokens as character sequences: one opaque, one legacy (dotted)
Tokens == {<<"o", "p", "q">>, <<"h", ".", "p", ".", "s">>}

HasDot(token) == \E i \in 1..Len(token) : token[i] = "."

\* what the identity provider's user-info endpoint may answer
BodyValues(k) ==
    CASE k = "sub" -> {Str(s) : s \in Subjects}
      [] k = "email" -> {Str("new@mail")}
      [] k = "name" -> {Str("New Name")}

Bodies ==
    UNION {{b \in [K -> {Str(s) : s \in Subjects \cup {"new@mail", "New Name"}}] :
                \A k \in K : b[k] \in BodyValues(k)} :
           K \in SUBSET {"sub", "email", "name"}}

\* a response: HTTP status, whether the body parses as JSON, the parsed body
IdpResponses ==
    [status : {200, 401}, json : {TRUE}, body : Bodies]
        \cup [status : {200, 401}, json : {FALSE}, body : {EmptyMap}]

\* the outcome of validating a legacy token locally (utils.get_auth0_payload)
LegacyOutcomes ==
    [valid : {TRUE}, sub : Subjects] \cup [valid : {FALSE}, sub : {""}]

\* a user that signed up before the modelled runs begin
PreUser ==
    [id |-> Str("u0"), username |-> Str("alice"),
     payload |-> Dict("profile"), type_id |-> Int("1")]

IdleLogin ==
    [pc |-> "idle", kind |-> "", status |-> 0, username |-> None,
     user_payload |-> EmptyMap, user |-> {}, attempts |-> 0,
     tried_create |-> FALSE,
     created |-> {}, ok |-> FALSE, err |-> "", jwt |-> {}, out |-> EmptyMap]

\* lines 60-76 on a present token: the subject and the provider fragment,
\* or the failure raised on the way
login_fragment(body) ==
    LET e == IF "email" \in DOMAIN body THEN [email |-> body["email"]] ELSE EmptyMap
        n == IF "name" \in DOMAIN body THEN [name |-> body["name"]] ELSE EmptyMap
    IN  Update(e, n)

login_opaque(resp) ==
    IF ~resp.json THEN [err |-> "BadBody", username |-> None, user_payload |-> EmptyMap]
    ELSE IF "sub" \notin DOMAIN resp.body
         THEN [err |-> "NoSub", username |-> None,
               user_payload |-> login_fragment(resp.body)]
         ELSE [err |-> "", username |-> resp.body["sub"],
               user_payload |-> login_fragment(resp.body)]

login_legacy(outcome) ==
    IF outcome.valid
    THEN [err |-> "", username |-> Str(outcome.sub), user_payload |-> EmptyMap]
    ELSE [err |-> "InvalidToken", username |-> None, user_payload |-> EmptyMap]

\* variant: the generated id is stored as the username
NewUserPayload_uuid_as_username(uuid, username) ==
    [id |-> uuid, username |-> uuid, payload |-> Dict("{}"), type_id |-> Int("1")]

\* lines 81-86
NewUserPayload(uuid, username) ==
    [id |-> uuid, username |-> username, payload |-> Dict("{}"), type_id |-> Int("1")]

\* utils.generate_uuid(): an identifier no stored row carries
UuidPool == {Str("id1"), Str("id2"), Str("id3"), Str("id4"), Str("id5")}

generate_uuid(d) ==
    CHOOSE u \in UuidPool : \A t \in EntityTypes : \A row \in d[t] :
        "id" \in DOMAIN row => row["id"] # u

\* utils.create_jwt_identity and add_claims_to_access_token (lines 43-51)
create_jwt_identity(user) == [sub |-> user["id"], rol |-> user["type_id"]]

add_claims_to_access_token(identity) == [sub |-> identity.sub, rol |-> identity.rol]

create_jwt(identity) == add_claims_to_access_token(identity)

\* variant: the provider fragment is returned even when it is empty
login_returned_user_fragment_only(user_payload, user) == user_payload

\* line 93
login_returned_user(user_payload, user) ==
    IF user_payload # EmptyMap THEN user_payload ELSE json_dict(user)

\* line 79
login_must_create(user) == user = {}

\* variant: the subject is looked up in the id column
login_lookup_by_id(d, username) == get_row(d, "User", [id |-> username])

\* line 78
login_lookup(d, username) == get_row(d, "User", [username |-> username])

\* variant: an existing user's row is overwritten with the provider fragment
login_store_overwrite(d, create, payload, user) ==
    IF create THEN add_row(d, "User", payload)
    ELSE [d EXCEPT !["User"] = (@ \ {user}) \cup {Update(user, payload)}]

\* lines 79-87: the only write of the handshake
login_store(d, create, payload, user) ==
    IF create THEN add_row(d, "User", payload) ELSE d

\* variant: a failed attempt starts over
Failed_retry(l, e) == [l EXCEPT !.pc = "idle"]

\* lines 96-97: any exception ends the request with an error response
Failed(l, e) == [l EXCEPT !.pc = "done", !.ok = FALSE, !.err = e]

\* lines 57-76: the token is resolved to a subject
LoginRequest(r) ==
    /\ login[r].pc = "idle"
    /\ \E hasToken \in BOOLEAN, token \in Tokens,
          resp \in IdpResponses, outcome \in LegacyOutcomes :
         LET opaque == ~HasDot(token)
             got == IF opaque THEN login_opaque(resp) ELSE login_legacy(outcome)
             l0 == [login[r] EXCEPT
                        !.attempts = @ + 1,
                        !.kind = IF opaque THEN "opaque" ELSE "legacy",
                        !.status = IF opaque THEN resp.status ELSE 0,
                        !.username = got.username,
                        !.user_payload = got.user_payload]
         IN  /\ hasToken => (opaque => outcome = [valid |-> FALSE, sub |-> ""])
             /\ hasToken => (~opaque => resp = [status |-> 200, json |-> FALSE,
                                                 body |-> EmptyMap])
             /\ ~hasToken => /\ token = <<"o", "p", "q">>
                             /\ outcome = [valid |-> FALSE, sub |-> ""]
                             /\ resp = [status |-> 200, json |-> FALSE, body |-> EmptyMap]
             /\ login' = [login EXCEPT ![r] =
                    IF ~hasToken
                    THEN Failed([login[r] EXCEPT !.attempts = @ + 1], "MissingField")
                    ELSE IF got.err # "" THEN Failed(l0, got.err)
                    ELSE [l0 EXCEPT !.pc = "lookup"]]
    /\ UNCHANGED <<db, lastReq, lastCall, lastStat, served>>

\* line 78
LoginLookup(r) ==
    /\ login[r].pc = "lookup"
    /\ login' = [login EXCEPT ![r].user = login_lookup(db, login[r].username),
                              ![r].pc = "finish"]
    /\ UNCHANGED <<db, lastReq, lastCall, lastStat, served>>

\* lines 79-95
LoginFinish(r) ==
    /\ login[r].pc = "finish"
    /\ LET l == login[r]
           create == login_must_create(l.user)
           uuid == generate_uuid(db)
           payload == IF create THEN NewUserPayload(uuid, l.username) ELSE l.user_payload
           stored == ~create \/ add_row_ok(db, "User", payload)
           user == IF create THEN payload ELSE CHOOSE u \in l.user : TRUE
       IN  /\ db' = login_store(db, create, payload, user)
           /\ login' = [login EXCEPT ![r] =
                  IF ~stored
                  THEN [Failed(l, "StorageConflict") EXCEPT !.tried_create = TRUE,
                                                            !.user_payload = payload]
                  ELSE [l EXCEPT !.pc = "done", !.ok = TRUE,
                                 !.tried_create = create,
                                 !.created = IF create THEN {payload["id"]} ELSE {},
                                 !.user_payload = payload,
                                 !.jwt = {create_jwt(create_jwt_identity(user))},
                                 !.out = login_returned_user(payload, user)]]
    /\ UNCHANGED <<lastReq, lastCall, lastStat, served>>

(***************************************************************************)
(* Argument resolver (tikki.utils.get_args), modelled from spec section    *)
(* 4.1.  Expected types are "str", "int", "dict" and "time"; a defaultable *)
(* field is coerced to the type of its default.                            *)
(***************************************************************************)
NumericTexts == {"0", "1", "2"}

IsoTexts == {"2020-01-01T00:00:00"}

\* the coerced value, or the empty set when coercion fails (rule 5)
Coerce(type, v) ==
    CASE type = "str" -> IF v[1] = "str" THEN {v} ELSE {}
      [] type = "int" ->
            IF v[1] = "int" THEN {v}
            ELSE IF v[1] = "str" /\ v[2] \in NumericTexts THEN {Int(v[2])} ELSE {}
      [] type = "dict" -> IF v[1] = "dict" THEN {v} ELSE {}
      [] type = "time" ->
            IF v[1] = "time" THEN {v}
            ELSE IF v[1] = "str" /\ v[2] \in IsoTexts THEN {Time(v[2])} ELSE {}
      [] OTHER -> {}

get_args(received, required, defaultable, optional, constant) ==
    LET missing == DOMAIN required \ DOMAIN received
        typed == ((DOMAIN required \cup DOMAIN optional \cup DOMAIN defaultable)
                    \ DOMAIN constant) \cap DOMAIN received
        typeOf(k) == IF k \in DOMAIN required THEN required[k]
                     ELSE IF k \in DOMAIN optional THEN optional[k]
                     ELSE defaultable[k][1]
        invalid == {k \in typed : Coerce(typeOf(k), received[k]) = {}}
        keys == typed \cup DOMAIN defaultable \cup DOMAIN constant
    IN  IF missing # {}
        THEN [err |-> "MissingField", fields |-> missing, val |-> EmptyMap]
        ELSE IF invalid # {}
        THEN [err |-> "InvalidType", fields |-> invalid, val |-> EmptyMap]
        ELSE [err |-> "", fields |-> {},
              val |-> [k \in keys |->
                         IF k \in DOMAIN constant THEN constant[k]
                         ELSE IF k \in typed
                              THEN CHOOSE c \in Coerce(typeOf(k), received[k]) : TRUE
                              ELSE defaultable[k]]]

(***************************************************************************)
(* update_row of the storage collaborator (spec section 6).                *)
(***************************************************************************)
Updated(d, t, filters, fields) ==
    {IF Matches(row, filters) THEN Update(row, fields) ELSE row : row \in d[t]}

KeysUnique(t, rows) ==
    \A cols \in KeyColumns(t) : \A a, b \in rows :
        (\A c \in cols : c \in DOMAIN a /\ c \in DOMAIN b /\ a[c] = b[c]) => a = b

update_row_ok(d, t, filters, fields) ==
    /\ t \in EntityTypes
    /\ get_rows(d, t, filters) # {}
    /\ Cardinality(Updated(d, t, filters, fields)) = Cardinality(d[t])
    /\ KeysUnique(t, Updated(d, t, filters, fields))

update_row(d, t, filters, fields) ==
    IF update_row_ok(d, t, filters, fields)
    THEN [d EXCEPT ![t] = Updated(d, t, filters, fields)]
    ELSE d

(***************************************************************************)
(* The endpoints.  A handler yields its plan: the error raised before any  *)
(* storage call, or the one storage call it makes.                         *)
(***************************************************************************)
NoCall == [op |-> "", type |-> "", filters |-> EmptyMap, row |-> EmptyMap]

Raise(e) == [err |-> e, call |-> NoCall]

Call(op, t, filters, row) ==
    [err |-> "", call |-> [op |-> op, type |-> t, filters |-> filters, row |-> row]]

now == Time("now")

\* lines 32-40
get_obj_type(path) ==
    IF path = "/user" THEN "User"
    ELSE IF path = "/record" THEN "Record"
    ELSE IF path = "/event" THEN "Event"
    ELSE IF path = "user-event-link" THEN "UserEventLink"
    ELSE "NoneType"

\* lines 100-123
delete_record(path, identity, args) ==
    LET obj_type == get_obj_type(path)
        required_args == IF obj_type = "UserEventLink"
                         THEN [event_id |-> "str"] ELSE [id |-> "str"]
        filters == get_args(args, required_args, EmptyMap, EmptyMap, EmptyMap)
    IN  IF filters.err # "" THEN Raise(filters.err)
        ELSE Call("delete_row", obj_type,
                  Update(filters.val, [user_id |-> identity]), EmptyMap)

\* lines 203-221; sub is the subject of the validated legacy token, or {}
post_user(sub, json, uuid) ==
    LET in_user == get_args(json, EmptyMap,
                            [id |-> uuid, created_at |-> now, updated_at |-> now,
                             payload |-> Dict("{}")],
                            EmptyMap, [type_id |-> Int("1")])
    IN  IF sub = {} THEN Raise("InvalidToken")
        ELSE IF in_user.err # "" THEN Raise(in_user.err)
        ELSE Call("add_row", "User", EmptyMap,
                  Update(in_user.val, [username |-> CHOOSE s \in sub : TRUE]))

\* lines 224-237
put_user(identity, json) ==
    LET in_user == get_args(json, EmptyMap,
                            [created_at |-> now, updated_at |-> now,
                             payload |-> Dict("{}")],
                            EmptyMap, EmptyMap)
    IN  IF in_user.err # "" THEN Raise(in_user.err)
        ELSE Call("update_row", "User", [id |-> identity], in_user.val)

\* lines 240-255
patch_user(identity, json) ==
    LET in_user == get_args(json, [id |-> "str"], [updated_at |-> now],
                            [created_at |-> "time", payload |-> "dict"], EmptyMap)
    IN  IF in_user.err # "" THEN Raise(in_user.err)
        ELSE Call("update_row", "User", [id |-> PopValue(in_user.val, "id")],
                  PopRest(in_user.val, "id"))

\* lines 339-351
get_record(identity, args) ==
    LET filters == get_args(args, EmptyMap, EmptyMap,
                            [id |-> "str", event_id |-> "str", type_id |-> "int"],
                            [user_id |-> identity])
    IN  IF filters.err # "" THEN Raise(filters.err)
        ELSE Call("get_rows", "Record", filters.val, EmptyMap)

\* variant: user_id is passed as a defaultable field, as PUT /record does
post_record_user_defaultable(identity, json, uuid) ==
    LET row == get_args(json, EmptyMap,
                        [id |-> uuid, created_at |-> now, updated_at |-> now,
                         payload |-> Dict("{}"), type_id |-> Int("0"),
                         user_id |-> identity],
                        [event_id |-> "str"], EmptyMap)
        created_user == get_args(json, EmptyMap,
                                 [created_user_id |-> row.val["user_id"]],
                                 EmptyMap, EmptyMap)
        validated == get_args(json, EmptyMap, [validated_at |-> now],
                              [validated_user_id |-> "str"], EmptyMap)
        row1 == Update(row.val, created_user.val)
        row2 == IF "validated_user_id" \in DOMAIN validated.val
                THEN Update(row1, validated.val) ELSE row1
    IN  IF row.err # "" THEN Raise(row.err)
        ELSE IF created_user.err # "" THEN Raise(created_user.err)
        ELSE IF validated.err # "" THEN Raise(validated.err)
        ELSE Call("add_row", "Record", EmptyMap, row2)

\* lines 354-395
post_record(identity, json, uuid) ==
    LET row == get_args(json, EmptyMap,
                        [id |-> uuid, created_at |-> now, updated_at |-> now,
                         payload |-> Dict("{}"), type_id |-> Int("0")],
                        [event_id |-> "str"], [user_id |-> identity])
        user_id == row.val["user_id"]
        created_user == get_args(json, EmptyMap, [created_user_id |-> user_id],
                                 EmptyMap, EmptyMap)
        validated == get_args(json, EmptyMap, [validated_at |-> now],
                              [validated_user_id |-> "str"], EmptyMap)
        row1 == Update(row.val, created_user.val)
        row2 == IF "validated_user_id" \in DOMAIN validated.val
                THEN Update(row1, validated.val) ELSE row1
    IN  IF row.err # "" THEN Raise(row.err)
        ELSE IF created_user.err # "" THEN Raise(created_user.err)
        ELSE IF validated.err # "" THEN Raise(validated.err)
        ELSE Call("add_row", "Record", EmptyMap, row2)

\* lines 398-433
patch_record(identity, json) ==
    LET row == get_args(json, [id |-> "str"], [updated_at |-> now],
                        [created_at |-> "time", payload |-> "dict",
                         type_id |-> "int", event_id |-> "str"], EmptyMap)
        created_user == get_args(json, EmptyMap, [created_user |-> identity],
                                 EmptyMap, EmptyMap)
        validated == get_args(json, EmptyMap, [validated_at |-> now],
                              [validated_user_id |-> "str"], EmptyMap)
        row1 == Update(row.val, created_user.val)
        row2 == IF "validated_user_id" \in DOMAIN validated.val
                THEN Update(row1, validated.val) ELSE row1
    IN  IF row.err # "" THEN Raise(row.err)
        ELSE IF created_user.err # "" THEN Raise(created_user.err)
        ELSE IF validated.err # "" THEN Raise(validated.err)
        ELSE Call("update_row", "Record", [id |-> PopValue(row2, "id")],
                  PopRest(row2, "id"))

\* lines 436-471
put_record(identity, json, uuid) ==
    LET row == get_args(json, EmptyMap,
                        [id |-> uuid, created_at |-> now, updated_at |-> now,
                         payload |-> Dict("{}"), type_id |-> Int("0"),
                         user_id |-> identity],
                        [event_id |-> "str"], EmptyMap)
        filters == [id |-> PopValue(row.val, "id")]
        created_user == get_args(json, EmptyMap, [created_user |-> identity],
                                 EmptyMap, EmptyMap)
        validated == get_args(json, EmptyMap, [validated_at |-> now],
                              [validated_user_id |-> "str"], EmptyMap)
        row1 == Update(PopRest(row.val, "id"), created_user.val)
        row2 == IF "validated_user_id" \in DOMAIN validated.val
                THEN Update(row1, validated.val) ELSE row1
    IN  IF row.err # "" THEN Raise(row.err)
        ELSE IF created_user.err # "" THEN Raise(created_user.err)
        ELSE IF validated.err # "" THEN Raise(validated.err)
        ELSE Call("update_row", "Record", filters, row2)

\* lines 495-502 and 517-524: the schema shared by POST and PUT /event
event_args(identity, json, uuid) ==
    get_args(json,
             [name |-> "str", description |-> "str", address |-> "str",
              postal_code |-> "str", event_at |-> "time"],
             [id |-> uuid, created_at |-> now, updated_at |-> now,
              payload |-> Dict("{}"), organization_id |-> Int("0"),
              user_id |-> identity],
             EmptyMap, EmptyMap)

\* lines 487-506
post_event(identity, json, uuid) ==
    LET row == event_args(identity, json, uuid)
    IN  IF row.err # "" THEN Raise(row.err)
        ELSE Call("add_row", "Event", EmptyMap, row.val)

\* lines 509-530
put_event(identity, json, uuid) ==
    LET row == event_args(identity, json, uuid)
    IN  IF row.err # "" THEN Raise(row.err)
        ELSE Call("update_row", "Event", [id |-> PopValue(row.val, "id")],
                  PopRest(row.val, "id"))

\* variant: event_id is declared optional instead of required
post_user_event_link_event_optional(identity, json) ==
    LET row == get_args(json, EmptyMap,
                        [created_at |-> now, updated_at |-> now,
                         user_id |-> identity, payload |-> Dict("{}")],
                        [event_id |-> "str"], EmptyMap)
    IN  IF row.err # "" THEN Raise(row.err)
        ELSE Call("add_row", "UserEventLink", EmptyMap, row.val)

\* lines 546-562
post_user_event_link(identity, json) ==
    LET row == get_args(json, [event_id |-> "str"],
                        [created_at |-> now, updated_at |-> now,
                         user_id |-> identity, payload |-> Dict("{}")],
                        EmptyMap, EmptyMap)
    IN  IF row.err # "" THEN Raise(row.err)
        ELSE Call("add_row", "UserEventLink", EmptyMap, row.val)

(***************************************************************************)
(* Serving a request: the plan's storage call is applied and the request,  *)
(* its outcome and the storage call are recorded.                          *)
(***************************************************************************)
NoRequest == [method |-> "", route |-> "", identity |-> None, raw |-> EmptyMap,
              outcome |-> ""]

ApplyCall(d, c) ==
    CASE c.op = "add_row" -> add_row(d, c.type, c.row)
      [] c.op = "update_row" -> update_row(d, c.type, c.filters, c.row)
      [] c.op = "delete_row" -> delete_row(d, c.type, c.filters)
      [] OTHER -> d

\* the error envelope's kind, or "ok" (utils.flask_handle_exception)
Outcome(d, plan) ==
    LET c == plan.call
    IN  IF plan.err # "" THEN plan.err
        ELSE CASE c.op = "add_row" ->
                    IF add_row_ok(d, c.type, c.row) THEN "ok" ELSE "StorageConflict"
               [] c.op = "update_row" ->
                    IF update_row_ok(d, c.type, c.filters, c.row) THEN "ok"
                    ELSE "Unexpected"
               [] c.op = "delete_row" ->
                    IF delete_row_ok(d, c.type, c.filters) THEN "ok" ELSE "Unexpected"
               [] OTHER -> "ok"

Serve(method, route, identity, raw, plan) ==
    /\ served' = served + 1
    /\ lastReq' = [method |-> method, route |-> route, identity |-> identity,
                   raw |-> raw, outcome |-> Outcome(db, plan)]
    /\ lastCall' = plan.call
    /\ db' = ApplyCall(db, plan.call)
    /\ UNCHANGED <<login, lastStat>>

\* the model serves a bounded number of requests
Accepting == served < MaxRequests

\* the request payloads the model sends: each field absent or one of vals
Opt(k, vals) == {EmptyMap} \cup {k :> v : v \in vals}

Both(A, B) == {a @@ b : a \in A, b \in B}

Identities == {Str("u1"), Str("u2")}

Paths == {"/user", "/record", "/event", "/user-event-link"}

DeleteArgs == Both(Opt("id", {Str("x1"), Str("u1")}), Opt("event_id", {Str("x1")}))

UserJson == Opt("payload", {Dict("p1"), Str("bad")})

UserPatchJson == Both(Opt("id", {Str("u1")}), Opt("payload", {Dict("p1")}))

RecordArgs == Both(Opt("id", {Str("x1")}), Opt("user_id", {Str("u2")}))

RecordJson ==
    Both(Opt("user_id", {Str("u2")}),
         Both(Opt("created_user_id", {Str("u2")}),
              Opt("validated_user_id", {Str("u2")})))

RecordPatchJson == Both(Opt("id", {Str("x1")}), Opt("payload", {Dict("p1"), Str("bad")}))

RecordPutJson == Both(Opt("id", {Str("x1")}), Opt("user_id", {Str("u2")}))

EventRest ==
    [description |-> Str("d"), address |-> Str("a"), postal_code |-> Str("00100")]

EventJson ==
    Both({EventRest},
         Both(Opt("name", {Str("n")}),
              Opt("event_at", {Str("2020-01-01T00:00:00"), Str("soon")})))

EventPutJson ==
    Both({EventRest @@ [event_at |-> Str("2020-01-01T00:00:00")]},
         Both(Opt("name", {Str("n")}), Opt("id", {Str("x1")})))

LinkJson == Both(Opt("event_id", {Str("x1")}), Opt("user_id", {Str("u2")}))

DeleteRecord ==
    /\ Accepting
    /\ \E path \in Paths, u \in Identities, args \in DeleteArgs :
          Serve("DELETE", path, u, args, delete_record(path, u, args))

PostUser ==
    /\ Accepting
    /\ \E sub \in {{}, {Str("carol")}}, json \in Opt("id", {Str("u1")}) :
          Serve("POST", "/user", None, json, post_user(sub, json, generate_uuid(db)))

PutUser ==
    /\ Accepting
    /\ \E u \in Identities, json \in UserJson :
          Serve("PUT", "/user", u, json, put_user(u, json))

PatchUser ==
    /\ Accepting
    /\ \E u \in Identities, json \in UserPatchJson :
          Serve("PATCH", "/user", u, json, patch_user(u, json))

GetRecord ==
    /\ Accepting
    /\ \E u \in Identities, args \in RecordArgs :
          Serve("GET", "/record", u, args, get_record(u, args))

PostRecord ==
    /\ Accepting
    /\ \E u \in Identities, json \in RecordJson :
          Serve("POST", "/record", u, json, post_record(u, json, generate_uuid(db)))

PatchRecord ==
    /\ Accepting
    /\ \E u \in Identities, json \in RecordPatchJson :
          Serve("PATCH", "/record", u, json, patch_record(u, json))

PutRecord ==
    /\ Accepting
    /\ \E u \in Identities, json \in RecordPutJson :
          Serve("PUT", "/record", u, json, put_record(u, json, generate_uuid(db)))

PostEvent ==
    /\ Accepting
    /\ \E u \in Identities, json \in EventJson :
          Serve("POST", "/event", u, json, post_event(u, json, generate_uuid(db)))

PutEvent ==
    /\ Accepting
    /\ \E u \in Identities, json \in EventPutJson :
          Serve("PUT", "/event", u, json, put_event(u, json, generate_uuid(db)))

PostUserEventLink ==
    /\ Accepting
    /\ \E u \in Identities, json \in LinkJson :
          Serve("POST", "/user-event-link", u, json, post_user_event_link(u, json))

(***************************************************************************)
(* The comparison statistics of the fitness tests (lines 258-336).  A      *)
(* record's payload is a mapping from score names to numbers.  Storage     *)
(* hands rows over in storage order, the order of the ids of StatRow.      *)
(***************************************************************************)
\* tikki.db.metadata.RecordTypeEnum
COOPERS_TEST == Int("1")

PUSH_UP_60_TEST == Int("2")

\* Python's order on user ids and on timestamps, least first
UserIdOrder == <<Str("u1"), Str("u2")>>

CreatedAtOrder == <<Time("2019-01-01T00:00:00"), Time("2020-01-01T00:00:00")>>

Rank(order, v) == CHOOSE i \in 1..Len(order) : order[i] = v

\* Python's order on tuples of numbers of one length
TupleLess(a, b) ==
    \E i \in 1..Len(a) : a[i] < b[i] /\ \A j \in 1..(i - 1) : a[j] = b[j]

\* lines 269 and 311: lambda x: (x.user_id, x.created_at)
user_created(x) ==
    <<Rank(UserIdOrder, x["user_id"]), Rank(CreatedAtOrder, x["created_at"])>>

\* x.payload[key]
score(r, key) == r["payload"][2][key]

\* the sort keys: "user_created", or the name of a score (lines 283, 323:
\* lambda x: x.payload['distance'], lambda x: x.payload['pushups'])
sort_key(key, x) == IF key = "user_created" THEN user_created(x) ELSE <<score(x, key)>>

\* list.sort(key, reverse) / sorted: the key is taken once per element and
\* the sort is stable, with reverse too
arranged(list, pos) ==
    [p \in 1..Len(list) |-> list[CHOOSE i \in 1..Len(list) : pos[i] = p]]

sorted_by(list, k, reverse) ==
    LET n == Len(list)
        before(i, j) == IF reverse THEN TupleLess(k[j], k[i]) ELSE TupleLess(k[i], k[j])
    IN  arranged(list, [i \in 1..n |->
                          1 + Cardinality({j \in 1..n :
                                 before(j, i) \/ (~before(i, j) /\ j < i)})])

sorted(list, key, reverse) ==
    sorted_by(list, [i \in 1..Len(list) |-> sort_key(key, list[i])], reverse)

\* the rows get_rows returns, as the list storage yields
rows_list(rows) ==
    LET ids == {r["id"][2] : r \in rows}
    IN  [p \in 1..Cardinality(ids) |->
            CHOOSE r \in rows :
               Cardinality({i \in ids : i < r["id"][2]}) = p - 1]

\* lines 269-276 and 311-318: the first record of each run of one user_id
run_heads(s) ==
    LET keep == {i \in 1..Len(s) : i = 1 \/ s[i - 1]["user_id"] # s[i]["user_id"]}
    IN  [p \in 1..Cardinality(keep) |->
            s[CHOOSE i \in keep : Cardinality({j \in keep : j < i}) = p - 1]]

filtered_records(records) == run_heads(sorted(records, "user_created", TRUE))

\* lines 277-278 and 319-320: the caller's record among them, if any
user_record(filtered, user_id) ==
    {filtered[i] : i \in {j \in 1..Len(filtered) : filtered[j]["user_id"] = user_id}}

has_score(r, key) == key \in DOMAIN r["payload"][2]

\* variant: the rank is counted from 0
quantile_zero_based(ranked, found) ==
    LET index == {i - 1 : i \in {j \in 1..Len(ranked) : ranked[j] \in found}}
    IN  IF index = {} \/ Len(ranked) = 0 THEN <<0, 1>>
        ELSE <<CHOOSE i \in index : TRUE, Len(ranked)>>

\* lines 281-290 and 324-332: the quantile as the fraction <<rank, size>>
quantile(ranked, found) ==
    LET index == {i - 1 : i \in {j \in 1..Len(ranked) : ranked[j] \in found}}
    IN  IF index = {} \/ Len(ranked) = 0 THEN <<0, 1>>
        ELSE <<(CHOOSE i \in index : TRUE) + 1, Len(ranked)>>

NoStat == [outcome |-> "", ranked |-> {}, quantile |-> <<0, 1>>]

StatResponse(outcome, filtered, q) ==
    [outcome |-> outcome, ranked |-> {filtered[i] : i \in 1..Len(filtered)},
     quantile |-> q]

\* lines 280-291 and 322-333: the response once filtered_records is known
ranked_response(filtered, user_id, name) ==
    IF \E i \in 1..Len(filtered) : ~has_score(filtered[i], name)
    THEN StatResponse("Unexpected", filtered, <<0, 1>>)
    ELSE StatResponse("ok", filtered,
                      quantile(sorted(filtered, name, FALSE),
                               user_record(filtered, user_id)))

\* lines 258-294
get_cooperstest_compstat(d, user_id) ==
    LET filters == [type_id |-> COOPERS_TEST]
        records == rows_list(get_rows(d, "Record", filters))
    IN  ranked_response(filtered_records(records), user_id, "distance")

\* lines 297-336
get_pushup60test_compstat(d, user_id) ==
    LET filters == [type_id |-> PUSH_UP_60_TEST]
        records == rows_list(get_rows(d, "Record", filters))
    IN  IF user_id = None THEN StatResponse("BadRequest", << >>, <<0, 1>>)
        ELSE ranked_response(filtered_records(records), user_id, "pushups")

ServeStat(route, user_id, response) ==
    /\ lastReq' = [method |-> "GET", route |-> route, identity |-> user_id,
                   raw |-> EmptyMap, outcome |-> response.outcome]
    /\ lastStat' = response

GetCooperstestCompstat ==
    /\ UNCHANGED <<db, login, lastCall, served>>
    /\ \E u \in Identities :
          ServeStat("/test/cooperstest/compstat", u, get_cooperstest_compstat(db, u))

GetPushup60testCompstat ==
    /\ UNCHANGED <<db, login, lastCall, served>>
    /\ \E u \in Identities :
          ServeStat("/test/pushup60test/compstat", u, get_pushup60test_compstat(db, u))

EmptyDb == [t \in EntityTypes |-> {}]

\* a database two users have already worked with
SeedDb ==
    [User |-> {[id |-> Str("u1"), username |-> Str("alice"),
                payload |-> Dict("profile"), type_id |-> Int("1")],
               [id |-> Str("u2"), username |-> Str("bob"),
                payload |-> Dict("profile"), type_id |-> Int("1")]},
     Record |-> {[id |-> Str("x1"), user_id |-> Str("u1"), type_id |-> Int("0"),
                  payload |-> Dict("{}"), created_at |-> now, updated_at |-> now,
                  created_user_id |-> Str("u1")]},
     Event |-> {[id |-> Str("x1"), user_id |-> Str("u2"), name |-> Str("n"),
                 description |-> Str("d"), address |-> Str("a"),
                 postal_code |-> Str("00100"),
                 event_at |-> Time("2020-01-01T00:00:00"),
                 organization_id |-> Int("0"), payload |-> Dict("{}"),
                 created_at |-> now, updated_at |-> now]},
     UserEventLink |-> {[event_id |-> Str("x1"), user_id |-> u,
                         payload |-> Dict("{}"), created_at |-> now,
                         updated_at |-> now] : u \in Identities}]

Init ==
    /\ db \in {EmptyDb, [EmptyDb EXCEPT !["User"] = {PreUser}]}
    /\ login = [r \in Logins |-> IdleLogin]
    /\ lastReq = NoRequest
    /\ lastCall = NoCall
    /\ lastStat = NoStat
    /\ served = 0

Next ==
    \E r \in Logins : LoginRequest(r) \/ LoginLookup(r) \/ LoginFinish(r)

Spec == Init /\ [][Next]_vars

\* logins that do not overlap: a login starts when no other is in progress
SeqLoginRequest(r) ==
    /\ \A o \in Logins : login[o].pc \in {"idle", "done"}
    /\ LoginRequest(r)

SeqNext ==
    \E r \in Logins : SeqLoginRequest(r) \/ LoginLookup(r) \/ LoginFinish(r)

SeqSpec == Init /\ [][SeqNext]_vars

\* the authenticated API on a populated database
ApiInit ==
    /\ db \in {EmptyDb, SeedDb}
    /\ login = [r \in Logins |-> IdleLogin]
    /\ lastReq = NoRequest
    /\ lastCall = NoCall
    /\ lastStat = NoStat
    /\ served = 0

ApiNext ==
    \/ DeleteRecord
    \/ PostUser
    \/ PutUser
    \/ PatchUser
    \/ GetRecord
    \/ PostRecord
    \/ PatchRecord
    \/ PutRecord
    \/ PostEvent
    \/ PutEvent
    \/ PostUserEventLink

ApiSpec == ApiInit /\ [][ApiNext]_vars

\* the stored test records: record i is absent or holds one of StatContents
CreatedAts == {CreatedAtOrder[i] : i \in 1..Len(CreatedAtOrder)}

CoopersKinds ==
    {[type_id |-> COOPERS_TEST, payload |-> Dict([distance |-> n])] : n \in 1..2}

\* one push-up result per user and time: u1 improves, u2 declines
PushupContents ==
    {[user_id |-> UserIdOrder[u], created_at |-> CreatedAtOrder[t],
      kind |-> [type_id |-> PUSH_UP_60_TEST,
                payload |-> Dict([pushups |-> IF u = t THEN 1 ELSE 2])]] :
        u \in 1..Len(UserIdOrder), t \in 1..Len(CreatedAtOrder)}

\* a Cooper's test record whose payload holds no distance
NoDistance ==
    [user_id |-> UserIdOrder[1], created_at |-> CreatedAtOrder[2],
     kind |-> [type_id |-> COOPERS_TEST, payload |-> Dict([note |-> 0])]]

StatContents ==
    [user_id : Identities, created_at : CreatedAts, kind : CoopersKinds]
        \cup PushupContents \cup {NoDistance}

StatRow(i, c) ==
    [id |-> Str(i), user_id |-> c.user_id, type_id |-> c.kind.type_id,
     payload |-> c.kind.payload, created_at |-> c.created_at]

\* the comparison statistics over every stored set of test records
StatInit ==
    /\ \E I \in SUBSET (1..MaxRecords) : \E f \in [I -> StatContents] :
          db = [EmptyDb EXCEPT !["Record"] = {StatRow(i, f[i]) : i \in I}]
    /\ login = [r \in Logins |-> IdleLogin]
    /\ lastReq = NoRequest
    /\ lastCall = NoCall
    /\ lastStat = NoStat
    /\ served = 0

StatNext ==
    \/ GetCooperstestCompstat
    \/ GetPushup60testCompstat

StatSpec == StatInit /\ [][StatNext]_vars

(***************************************************************************)
(* Properties of /login.                                                   *)
(***************************************************************************)
UsersNamed(s) == get_rows(db, "User", [username |-> s])

TokenFor(l, u) == l.jwt # {} /\ \A j \in l.jwt : j.sub = u["id"]

\* C1: an opaque-token login whose provider response carries subject s, and
\* which found no User named s, creates exactly one User named s and returns
\* a session token whose sub claim is that User's id; the Users created are
\* exactly those created by such logins, one each.
C1_FirstLoginCreatesUser ==
    /\ \A r \in Logins :
         LET l == login[r]
         IN  (l.pc = "done" /\ l.ok /\ l.kind = "opaque" /\ l.user = {}) =>
                /\ Cardinality(UsersNamed(l.username)) = 1
                /\ \A u \in UsersNamed(l.username) :
                      l.created = {u["id"]} /\ TokenFor(l, u)
    /\ Cardinality(db["User"] \ {PreUser})
         = Cardinality({r \in Logins : login[r].created # {}})

C1_Witness ==
    \E r \in Logins :
        /\ login[r].pc = "done" /\ login[r].ok /\ login[r].kind = "opaque"
        /\ login[r].user = {} /\ login[r].created # {}
        /\ login[r].username = Str("bob")

\* C2: when logins do not overlap, every login that resolved a subject
\* succeeds with a token for the one User of that subject; at most one login
\* per subject creates a User, none does when the User already existed, and a
\* login attempts a creation only when it is the one that creates.
C2_OneUserPerSubject ==
    \A r \in Logins :
        LET l == login[r]
        IN  (l.pc = "done" /\ l.username # None) =>
               /\ l.ok
               /\ Cardinality(UsersNamed(l.username)) = 1
               /\ \A u \in UsersNamed(l.username) : TokenFor(l, u)
               /\ l.tried_create => l.created # {}
               /\ l.user # {} => l.created = {}
               /\ \A o \in Logins \ {r} :
                     (login[o].pc = "done" /\ login[o].username = l.username) =>
                        /\ login[o].jwt = l.jwt
                        /\ l.created = {} \/ login[o].created = {}

C2_Witness ==
    \E r, o \in Logins :
        /\ r # o
        /\ login[r].pc = "done" /\ login[r].ok /\ login[r].created # {}
        /\ login[o].pc = "done" /\ login[o].ok /\ login[o].created = {}
        /\ login[o].username = login[r].username
        /\ login[o].jwt = login[r].jwt

\* C3: a login that attempted to create its User and lost the race to
\* another login for the same subject still succeeds, with a token for the
\* User the winner created.
C3_RaceLoserSucceeds ==
    \A r \in Logins :
        LET l == login[r]
        IN  (l.pc = "done" /\ l.tried_create /\ l.created = {}) =>
               /\ l.ok
               /\ \A u \in UsersNamed(l.username) : TokenFor(l, u)

\* C4: a login attempt that fails has minted no token, created no User and
\* returned no profile; the step on which it fails leaves storage unchanged;
\* nothing of the attempt changes afterwards, and no attempt runs twice.
C4_FailedLoginIsTerminal ==
    [][\A r \in Logins :
          LET a == login[r]
              b == login'[r]
          IN  /\ b.attempts <= 1
              /\ (b.pc = "done" /\ ~b.ok) =>
                    /\ b.jwt = {} /\ b.created = {} /\ b.out = EmptyMap
                    /\ a.pc # "done" => db' = db
                    /\ a.pc = "done" => b = a]_vars

C4_Witness ==
    /\ \E r \in Logins :
          login[r].pc = "done" /\ ~login[r].ok /\ login[r].err = "StorageConflict"
    /\ Cardinality(db["User"]) = 1

\* C5: in the opaque branch a non-success response of the identity provider
\* fails the login: no User is looked up or created and no token is minted.
C5_NonSuccessFailsLogin ==
    \A r \in Logins :
        LET l == login[r]
        IN  (l.kind = "opaque" /\ l.status # 200 /\ l.pc # "idle") =>
               /\ l.pc = "done" /\ ~l.ok
               /\ ~l.tried_create /\ l.jwt = {}

\* C7: no step of a login removes or changes a stored User; a login that
\* found its User finishes without writing, creates nothing and returns a
\* token for the User it found.
C7_LoginKeepsStoredUsers ==
    [][/\ db["User"] \subseteq db'["User"]
       /\ \A r \in Logins :
            (login[r].pc = "finish" /\ login'[r].pc = "done" /\ login[r].user # {}) =>
               /\ db' = db
               /\ login'[r].ok /\ login'[r].created = {}
               /\ \A u \in login[r].user : TokenFor(login'[r], u)]_vars

C7_Witness ==
    \E r \in Logins :
        /\ login[r].pc = "done" /\ login[r].ok
        /\ login[r].user = {PreUser}
        /\ DOMAIN login[r].user_payload = {"email", "name"}
        /\ PreUser \in db["User"]

\* C8 as claimed: a login that created its User returns the synthesized
\* {id, username, payload, type_id}; an opaque-branch login of an existing
\* User returns the provider's {email, name} fragment, and nothing else.
C8_PayloadShapeAsClaimed ==
    \A r \in Logins :
        LET l == login[r]
        IN  (l.pc = "done" /\ l.ok) =>
               /\ \A id \in l.created :
                     l.out = [id |-> id, username |-> l.username,
                              payload |-> Dict("{}"), type_id |-> Int("1")]
               /\ (l.created = {} /\ l.kind = "opaque") =>
                     /\ l.out = l.user_payload
                     /\ DOMAIN l.out \subseteq {"email", "name"}

\* C8 as amended: as claimed, except that an opaque-branch login of an
\* existing User whose provider response carries neither email nor name
\* returns the stored User row.
C8_PayloadShape ==
    \A r \in Logins :
        LET l == login[r]
        IN  (l.pc = "done" /\ l.ok) =>
               /\ \A id \in l.created :
                     l.out = [id |-> id, username |-> l.username,
                              payload |-> Dict("{}"), type_id |-> Int("1")]
               /\ (l.created = {} /\ l.kind = "opaque") =>
                     IF l.user_payload # EmptyMap
                     THEN /\ l.out = l.user_payload
                          /\ DOMAIN l.out \subseteq {"email", "name"}
                          /\ DOMAIN l.out # {}
                     ELSE l.out \in l.user

C8_Witness ==
    \E r \in Logins :
        /\ login[r].pc = "done" /\ login[r].ok /\ login[r].kind = "opaque"
        /\ login[r].created = {} /\ login[r].user_payload = EmptyMap
        /\ login[r].out = PreUser

(***************************************************************************)
(* Properties of the authenticated endpoints.                              *)
(***************************************************************************)
\* the filter or row a storage call hands over
Handed(c) == IF c.op \in {"get_rows", "delete_row"} THEN c.filters ELSE c.row

\* C6: the filter GET /record and the row POST /record hand to storage carry
\* the authenticated identity as user_id, whatever the request supplies; the
\* row POST /record stores carries it too.
C6_ConstantUserId ==
    (lastReq.route = "/record" /\ lastReq.method \in {"GET", "POST"}
        /\ lastCall.op # "") =>
       /\ "user_id" \in DOMAIN Handed(lastCall)
       /\ Handed(lastCall)["user_id"] = lastReq.identity
       /\ (lastReq.method = "POST" /\ lastReq.outcome = "ok") =>
             lastCall.row \in db["Record"]

C6_Witness ==
    /\ lastReq.route = "/record" /\ lastReq.method = "POST"
    /\ lastReq.outcome = "ok"
    /\ DOMAIN lastReq.raw = {"user_id", "created_user_id", "validated_user_id"}
    /\ lastReq.raw["user_id"] # lastReq.identity
    /\ lastCall.row["user_id"] = lastReq.identity
    /\ lastCall.row["validated_user_id"] = lastReq.raw["validated_user_id"]
    /\ lastCall.row \in db["Record"]

\* the fields each mutating endpoint requires
RequiredFields(method, route) ==
    CASE method = "PATCH" /\ route \in {"/user", "/record"} -> {"id"}
      [] method \in {"POST", "PUT"} /\ route = "/event" ->
            {"name", "description", "address", "postal_code", "event_at"}
      [] method = "POST" /\ route = "/user-event-link" -> {"event_id"}
      [] method = "DELETE" /\ route # "/user-event-link" -> {"id"}
      [] method = "DELETE" /\ route = "/user-event-link" -> {"event_id"}
      [] OTHER -> {}

\* C9: a mutating request that lacks a field its endpoint requires fails and
\* leaves storage unchanged, whatever its other fields hold.
C9_MissingRequiredLeavesStorage ==
    [][LET q == lastReq'
       IN  (served' = served + 1
               /\ q.method \in {"POST", "PUT", "PATCH", "DELETE"}
               /\ RequiredFields(q.method, q.route) \ DOMAIN q.raw # {}) =>
              (db' = db /\ q.outcome # "ok")]_vars

C9_Witness ==
    /\ lastReq.method = "POST" /\ lastReq.route = "/event"
    /\ "name" \notin DOMAIN lastReq.raw
    /\ "event_at" \in DOMAIN lastReq.raw
    /\ lastReq.raw["event_at"] = Str("soon")
    /\ lastReq.outcome = "MissingField"
    /\ lastCall = NoCall
    /\ db = SeedDb

\* the entity type each route names
RouteEntity(route) ==
    CASE route = "/user" -> "User"
      [] route = "/record" -> "Record"
      [] route = "/event" -> "Event"
      [] route = "/user-event-link" -> "UserEventLink"

\* C10: a DELETE on a route removes the rows of that route's entity type
\* that the authenticated identity owns and the selector (event_id for
\* /user-event-link, id otherwise) picks, and no other row of any type.
C10_DeleteOwnRowsOfRoute ==
    [][LET q == lastReq'
           t == RouteEntity(q.route)
           sel == IF t = "UserEventLink" THEN "event_id" ELSE "id"
           Picked(row) == /\ "user_id" \in DOMAIN row
                          /\ row["user_id"] = q.identity
                          /\ sel \in DOMAIN q.raw
                          /\ row[sel] = q.raw[sel]
       IN  (served' = served + 1 /\ q.method = "DELETE") =>
              /\ \A x \in EntityTypes \ {t} : db'[x] = db[x]
              /\ db'[t] \subseteq db[t]
              /\ \A row \in db[t] : row \notin db'[t] <=> Picked(row)]_vars


\* the user a row belongs to: a User row to the user with that id, a Record
\* or Event row to the user in its user_id
Owner(t, row) == IF t = "User" THEN row["id"] ELSE row["user_id"]

\* C11: a PUT or PATCH on /user, /record or /event changes only rows the
\* authenticated identity owns, and every row it changes still belongs to
\* that identity afterwards.
C11_OnlyOwnerModifies ==
    [][LET q == lastReq'
       IN  (served' = served + 1 /\ q.method \in {"PUT", "PATCH"}
               /\ q.route \in {"/user", "/record", "/event"}) =>
              \A t \in {"User", "Record", "Event"} :
                 /\ \A row \in db[t] \ db'[t] : Owner(t, row) = q.identity
                 /\ \A row \in db'[t] \ db[t] : Owner(t, row) = q.identity]_vars

(***************************************************************************)
(* Properties of the comparison statistics.                                *)
(***************************************************************************)
CompstatRoutes == {"/test/cooperstest/compstat", "/test/pushup60test/compstat"}

\* the record type and the score an endpoint ranks
TestType(route) ==
    IF route = "/test/cooperstest/compstat" THEN COOPERS_TEST ELSE PUSH_UP_60_TEST

TestScore(route) ==
    IF route = "/test/cooperstest/compstat" THEN "distance" ELSE "pushups"

OfTest(route) == {r \in db["Record"] : r["type_id"] = TestType(route)}

NotLater(a, b) ==
    Rank(CreatedAtOrder, a["created_at"]) <= Rank(CreatedAtOrder, b["created_at"])

\* C12: for both endpoints the ranked set holds, for each user with a record
\* of the test type, exactly one record, one of that user's with the
\* greatest created_at, and nothing else; an answered quantile is 0 when the
\* caller has no such record, and otherwise is rank/size, where size is the
\* size of the ranked set and rank the 1-based place of the caller's ranked
\* record in ascending order of the score, so that 0 < rank <= size.
C12_QuantileOfLatest ==
    (lastReq.route \in CompstatRoutes /\ lastStat.outcome # "BadRequest") =>
       LET all == OfTest(lastReq.route)
           ranked == lastStat.ranked
           name == TestScore(lastReq.route)
           mine == {r \in ranked : r["user_id"] = lastReq.identity}
           rank == lastStat.quantile[1]
           size == lastStat.quantile[2]
       IN  /\ ranked \subseteq all
           /\ \A r \in all :
                 \E m \in ranked :
                    /\ m["user_id"] = r["user_id"]
                    /\ NotLater(r, m)
                    /\ \A o \in ranked : o["user_id"] = r["user_id"] => o = m
           /\ lastStat.outcome = "ok" =>
                 /\ (\A r \in all : r["user_id"] # lastReq.identity) =>
                       rank = 0
                 /\ \A m \in mine :
                       /\ size = Cardinality(ranked)
                       /\ rank > Cardinality({r \in ranked :
                                                score(r, name) < score(m, name)})
                       /\ rank <= Cardinality({r \in ranked :
                                                 score(r, name) <= score(m, name)})
                       /\ 0 < rank /\ rank <= size

\* the caller's earlier result equals the other user's, the later and lower
\* one is ranked, first of two
C12_Witness ==
    /\ lastReq.route = "/test/cooperstest/compstat"
    /\ lastReq.identity = Str("u1")
    /\ lastStat.outcome = "ok"
    /\ Cardinality(OfTest(lastReq.route)) = 3
    /\ Cardinality(lastStat.ranked) = 2
    /\ \E old \in OfTest(lastReq.route) \ lastStat.ranked :
          /\ old["user_id"] = Str("u1")
          /\ has_score(old, "distance") /\ score(old, "distance") = 2
          /\ \E m \in lastStat.ranked :
                /\ m["user_id"] = Str("u1") /\ score(m, "distance") = 1
                /\ ~NotLater(m, old)
    /\ \E o \in lastStat.ranked :
          o["user_id"] = Str("u2") /\ score(o, "distance") = 2
    /\ lastStat.quantile = <<1, 2>>

=============================================================================
